---------------------------- MODULE Spec2Model ----------------------------
(***************************************************************************)
(* A model of the GenEQ / PathBuilder AI risk pipeline:                    *)
(*   backend/compute.py   norm_key, category_for, normalize_dimension,     *)
(*                        compute_job_risk                                 *)
(*   backend/main_backup.py / frontend/app.py   tapered_weights            *)
(*                                                                         *)
(* The SQLite database is the variable db: a record with one field per     *)
(* table, each table a set of rows, each row a function from column name   *)
(* to value.                                                               *)
(*                                                                         *)
(* Numbers.  The program computes with floats.  The model computes with    *)
(* exact numbers of the form  a + b*eps  where a and b are rationals and   *)
(* eps stands for the 1e-9 that compute_job_risk adds to a denominator.    *)
(* A number is a pair <<a, b>> of rationals, a rational a pair <<n, d>>    *)
(* in lowest terms with d > 0.  Numbers are compared lexicographically,    *)
(* which is the order of the reals  a + b*1e-9  as long as the rationals   *)
(* involved have small numerators and denominators, as they have for the   *)
(* bounded inputs below.  Products drop the eps^2 term.  Floating-point    *)
(* rounding is not modelled.  A division by an exact zero gives NaN.       *)
(***************************************************************************)
EXTENDS Integers, Sequences, FiniteSets, TLC

VARIABLES
    db,      \* the SQLite database: table name -> set of rows
    last,    \* the last operation that ran on db, and what it found
    call     \* the last call of a pure function: its arguments and result

vars == <<db, last, call>>

-----------------------------------------------------------------------------
(* Rational arithmetic *)

Abs(n) == IF n < 0 THEN -n ELSE n

RECURSIVE GCD(_, _)
GCD(m, n) == IF n = 0 THEN m ELSE GCD(n, m % n)

\* the rational n/d in lowest terms, d > 0; <<0, 0>> when d = 0
Rat(n, d) ==
    IF d = 0 THEN <<0, 0>>
    ELSE LET g == GCD(Abs(n), Abs(d))
             s == IF d < 0 THEN -1 ELSE 1
         IN  <<(s * n) \div g, (s * d) \div g>>

RIsNaN(x) == x[2] = 0
\* common factors are cancelled before multiplying, to keep the integers
\* small
RAdd(x, y) ==
    LET g == GCD(x[2], y[2])
    IN  Rat(x[1] * (y[2] \div g) + y[1] * (x[2] \div g), (x[2] \div g) * y[2])
RNeg(x) == <<-x[1], x[2]>>
RSub(x, y) == RAdd(x, RNeg(y))
RMul(x, y) ==
    LET g1 == GCD(Abs(x[1]), y[2])
        g2 == GCD(Abs(y[1]), x[2])
    IN  Rat((x[1] \div g1) * (y[1] \div g2), (x[2] \div g2) * (y[2] \div g1))
\* x / y for y # 0
RDiv(x, y) ==
    RMul(x, IF y[1] < 0 THEN <<-y[2], -y[1]>> ELSE <<y[2], y[1]>>)
RLt(x, y) ==
    LET g == GCD(x[2], y[2])
    IN  x[1] * (y[2] \div g) < y[1] * (x[2] \div g)
RZero == <<0, 1>>

-----------------------------------------------------------------------------
(* Numbers a + b*eps *)

NaN == <<(<<0, 0>>), (<<0, 0>>)>>
IsNaN(x) == RIsNaN(x[1]) \/ RIsNaN(x[2])

\* the float n/d, and the float of an integer
Frac(n, d) == <<Rat(n, d), RZero>>
Float(n)   == Frac(n, 1)

Add(x, y) == IF IsNaN(x) \/ IsNaN(y) THEN NaN
             ELSE <<RAdd(x[1], y[1]), RAdd(x[2], y[2])>>
Sub(x, y) == IF IsNaN(x) \/ IsNaN(y) THEN NaN
             ELSE <<RSub(x[1], y[1]), RSub(x[2], y[2])>>
Mul(x, y) == IF IsNaN(x) \/ IsNaN(y) THEN NaN
             ELSE <<RMul(x[1], y[1]),
                    RAdd(RMul(x[1], y[2]), RMul(x[2], y[1]))>>
\* x / y.  When y is a pure multiple of eps the quotient exists only for
\* x a pure multiple of eps too; x / 0 is NaN.
Div(x, y) ==
    IF IsNaN(x) \/ IsNaN(y) THEN NaN
    ELSE IF y[1] # RZero
         THEN <<RDiv(x[1], y[1]),
                RSub(RDiv(x[2], y[1]),
                     RMul(RDiv(x[1], y[1]), RDiv(y[2], y[1])))>>
    ELSE IF y[2] # RZero /\ x[1] = RZero
         THEN <<RDiv(x[2], y[2]), RZero>>
    ELSE NaN

\* every comparison with NaN is false, as for floats
Lt(x, y) == /\ ~IsNaN(x) /\ ~IsNaN(y)
            /\ \/ RLt(x[1], y[1])
               \/ x[1] = y[1] /\ RLt(x[2], y[2])
Le(x, y) == ~IsNaN(x) /\ ~IsNaN(y) /\ ~Lt(y, x)

\* Python's max(a, b) and min(a, b): the first argument unless the second
\* compares greater (smaller)
PyMax(a, b) == IF Lt(a, b) THEN b ELSE a
PyMin(a, b) == IF Lt(b, a) THEN b ELSE a

\* Series.min() and Series.max() of a non-empty set of numbers
SeriesMin(S) == CHOOSE x \in S : \A y \in S : Le(x, y)
SeriesMax(S) == CHOOSE x \in S : \A y \in S : Le(y, x)

Zero == Float(0)
One  == Float(1)
Half == Frac(1, 2)
In01(x) == Le(Zero, x) /\ Le(x, One)

-----------------------------------------------------------------------------
(* The database *)

Tables == {"province_risk_raw", "ethnicity_risk_raw", "province_risk",
           "ethnicity_risk", "job_features_raw", "ability_skill_rubric_raw",
           "job_profile", "job_risk"}

\* the database after schema.sql: every table exists and is empty
EmptyDb == [t \in Tables |-> {}]

\* conn.execute("DELETE FROM t")
SqlDeleteKeepsRows(d, t) == d
SqlDeleteProfileOnly(d, t) ==
    IF t = "job_profile" THEN [d EXCEPT ![t] = {}] ELSE d
SqlDelete(d, t) == [d EXCEPT ![t] = {}]

\* DataFrame.to_sql(t, conn, if_exists="append", index=False)
ToSql(d, t, rows) == [d EXCEPT ![t] = @ \cup rows]

\* the set of values of column c in a set of rows
Column(rows, c) == {r[c] : r \in rows}

NoCall == [fn |-> "none"]

-----------------------------------------------------------------------------
(* Strings.  A string is the sequence of its tokens: the maximal runs of   *)
(* word characters (\w) and the maximal runs of other characters, in       *)
(* order.  A word token keeps its letters in lower case and its casing     *)
(* ("l" lower, "T" Title, "U" UPPER); a token of non-word characters has   *)
(* casing "-".  Two adjacent tokens are never of the same kind.            *)

W(text, casing) == [t |-> text, c |-> casing]
P(text) == [t |-> text, c |-> "-"]
IsWord(tok) == tok.c # "-"

EmptyStr == << >>
\* Python's None, a value that is no string
None == <<[t |-> "None", c |-> "None"]>>

\* x or default
PyOr(x, default) == IF x = None \/ x = EmptyStr THEN default ELSE x

\* str.lower() of a token
Lower(tok) == IF IsWord(tok) THEN [tok EXCEPT !.c = "l"] ELSE tok

\* is every character of a token white space (the model's white space is
\* the blank)
IsSpace(tok) == tok.t \in {" ", "  "}

\* norm_key: strip, lower, every run of characters that are neither word
\* characters nor white space becomes a blank, white space collapses to
\* single blanks: the lower-cased words of s joined by single blanks
RECURSIVE JoinWords(_)
JoinWords(ws) ==
    IF ws = << >> THEN << >>
    ELSE IF Len(ws) = 1 THEN <<Lower(ws[1])>>
    ELSE <<Lower(ws[1]), P(" ")>> \o JoinWords(Tail(ws))
norm_key(s) == JoinWords(SelectSeq(PyOr(s, EmptyStr), IsWord))

-----------------------------------------------------------------------------
(* PCS category mapping.  Each pattern is \b(alt|alt|...)\b compiled with  *)
(* re.I: the set of its alternatives, each a string.  Every alternative    *)
(* starts and ends with a word character, so an occurrence between word    *)
(* boundaries is an occurrence as whole tokens.                            *)

RoutineRx ==
    { <<W("operation", "T"), P(" "), W("monitoring", "T"), P(" "), W("of",
         "l"), P(" "), W("machinery", "T"), P(" "), W("and", "l"), P(" "),
         W("equipment", "T")>>,
      <<W("quality", "T"), P(" "), W("control", "T"), P(" "), W("testing",
         "T")>>,
      <<W("monitoring", "T")>>,
      <<W("categorization", "T"), P(" "), W("flexibility", "T")>>,
      <<W("numeracy", "T")>>,
      <<W("information", "T"), P(" "), W("ordering", "T")>>,
      <<W("pattern", "T"), P(" "), W("identification", "T")>>,
      <<W("pattern", "T"), P(" "), W("organization", "T"), P(" "), W("speed",
         "T")>> }

PhysicalRx ==
    { <<W("repairing", "T")>>,
      <<W("setting", "T"), P(" "), W("up", "l")>>,
      <<W("memorizing", "T")>>,
      <<W("multitasking", "T")>>,
      <<W("perceptual", "T"), P(" "), W("speed", "T")>>,
      <<W("selective", "T"), P(" "), W("attention", "T")>>,
      <<W("spatial", "T"), P(" "), W("orientation", "T")>>,
      <<W("spatial", "T"), P(" "), W("visualization", "T")>>,
      <<W("verbal", "T"), P(" "), W("ability", "T")>>,
      <<W("body", "T"), P(" "), W("flexibility", "T")>>,
      <<W("dynamic", "T"), P(" "), W("strength", "T")>>,
      <<W("explosive", "T"), P(" "), W("strength", "T")>>,
      <<W("gross", "T"), P(" "), W("body", "T"), P(" "), W("coordination",
         "T")>>,
      <<W("gross", "T"), P(" "), W("body", "T"), P(" "), W("equilibrium",
         "T")>>,
      <<W("multi", "T"), P("-"), W("limb", "T"), P(" "), W("coordination",
         "T")>>,
      <<W("stamina", "T")>>,
      <<W("static", "T"), P(" "), W("strength", "T")>>,
      <<W("trunk", "T"), P(" "), W("strength", "T")>>,
      <<W("arm", "T"), P("-"), W("hand", "T"), P(" "), W("steadiness", "T")>>,
      <<W("control", "T"), P(" "), W("of", "l"), P(" "), W("settings", "T")>>,
      <<W("finger", "T"), P(" "), W("dexterity", "T")>>,
      <<W("manual", "T"), P(" "), W("dexterity", "T")>>,
      <<W("multi", "T"), P("-"), W("signal", "T"), P(" "), W("response",
         "T")>>,
      <<W("rate", "T"), P(" "), W("control", "T")>>,
      <<W("reaction", "T"), P(" "), W("time", "T")>>,
      <<W("speed", "T"), P(" "), W("of", "l"), P(" "), W("limb", "T"),
         P(" "), W("movement", "T")>>,
      <<W("finger", "T"), P("-"), W("hand", "T"), P("-"), W("wrist", "T"),
         P(" "), W("motion", "T")>>,
      <<W("auditory", "T"), P(" "), W("attention", "T")>>,
      <<W("depth", "T"), P(" "), W("perception", "T")>>,
      <<W("far", "T"), P(" "), W("vision", "T")>>,
      <<W("glare", "T"), P(" "), W("tolerance", "T")>>,
      <<W("hearing", "T"), P(" "), W("sensitivity", "T")>>,
      <<W("near", "T"), P(" "), W("vision", "T")>>,
      <<W("night", "T"), P(" "), W("vision", "T")>>,
      <<W("peripheral", "T"), P(" "), W("vision", "T")>>,
      <<W("speech", "T"), P(" "), W("clarity", "T")>>,
      <<W("speech", "T"), P(" "), W("recognition", "T")>>,
      <<W("sound", "T"), P(" "), W("localization", "T")>>,
      <<W("colour", "T"), P(" "), W("perception", "T")>> }

CreativeRx ==
    { <<W("fluency", "T"), P(" "), W("of", "l"), P(" "), W("ideas", "T")>>,
      <<W("product", "T"), P(" "), W("design", "T")>> }

SocialRx ==
    { <<W("oral", "T"), P(" "), W("communication", "T"), P(": "), W("active",
         "T"), P(" "), W("listening", "T")>>,
      <<W("oral", "T"), P(" "), W("communication", "T"), P(": "), W("oral",
         "T"), P(" "), W("comprehension", "T")>>,
      <<W("oral", "T"), P(" "), W("communication", "T"), P(": "), W("oral",
         "T"), P(" "), W("expression", "T")>>,
      <<W("coordinating", "T")>>,
      <<W("instructing", "T")>>,
      <<W("negotiating", "T")>>,
      <<W("persuading", "T")>>,
      <<W("social", "T"), P(" "), W("perceptiveness", "T")>> }

\* re.compile(pattern, re.I): the alternatives of the pattern, case folded
Compile(alts) == {[k \in 1..Len(alt) |-> Lower(alt[k])] : alt \in alts}

CategoryMapPhysicalFirst ==
    << [rx |-> Compile(PhysicalRx), cat |-> "PHYSICAL"],
       [rx |-> Compile(RoutineRx),  cat |-> "ROUTINE"],
       [rx |-> Compile(CreativeRx), cat |-> "CREATIVE"],
       [rx |-> Compile(SocialRx),   cat |-> "SOCIAL"] >>
CATEGORY_MAP ==
    << [rx |-> Compile(RoutineRx),  cat |-> "ROUTINE"],
       [rx |-> Compile(PhysicalRx), cat |-> "PHYSICAL"],
       [rx |-> Compile(CreativeRx), cat |-> "CREATIVE"],
       [rx |-> Compile(SocialRx),   cat |-> "SOCIAL"] >>

PCS_SET == {"PHYSICAL", "CREATIVE", "SOCIAL"}

\* rx.search(s): some run of whole tokens of s is, case folded, one of the
\* alternatives of the compiled pattern
Search(rx, s) ==
    \E i \in 1..Len(s) : \E j \in i..Len(s) :
        [k \in 1..(j - i + 1) |-> Lower(s[i + k - 1])] \in rx

\* the loop of category_for from rule i on
RECURSIVE FirstMatch(_, _, _)
FirstMatch(map, i, s) ==
    IF i > Len(map) THEN "OTHER"
    ELSE IF Search(map[i].rx, s) THEN map[i].cat
    ELSE FirstMatch(map, i + 1, s)

category_for(feature_name) ==
    FirstMatch(CATEGORY_MAP, 1, PyOr(feature_name, EmptyStr))

-----------------------------------------------------------------------------
(* Bounds of the model *)

\* the province and ethnicity codes the raw tables draw their keys from
Provinces == {"ON", "QC", "AB"}
Ethnicities == {"E1"}

\* the exposure values a raw row may hold: 10, 20, ..., 10 * MaxExposure
MaxExposure == 3
ExposureValues == {10 * i : i \in 1..MaxExposure}

\* the two dimensions normalize_dimension is called for:
\* <<table_raw, key_col, table_out, out_key_col, out_val_col>>
ProvinceDim == <<"province_risk_raw", "province_code",
                 "province_risk", "province_code", "risk">>
EthnicityDim == <<"ethnicity_risk_raw", "ethnicity_code",
                  "ethnicity_risk", "ethnicity_code", "risk">>
Dimensions == {ProvinceDim, EthnicityDim}
DimKeys(dim) == IF dim = ProvinceDim THEN Provinces ELSE Ethnicities

-----------------------------------------------------------------------------
(* 1) normalize_dimension *)

\* the risk of one row: 0.5 when all values are equal, else min-max
MinMaxNoOffset(v, vmin, vmax) ==
    IF vmax = vmin THEN Half ELSE Div(v, vmax)
MinMaxNoGuard(v, vmin, vmax) == Div(Sub(v, vmin), Sub(vmax, vmin))
MinMax(v, vmin, vmax) ==
    IF vmax = vmin THEN Half
    ELSE Div(Sub(v, vmin), Sub(vmax, vmin))

\* the database after normalize_dimension(conn, table_raw, key_col,
\* table_out, out_key_col, out_val_col) on database d
NormalizeKeepsStale(d, table_raw, key_col, table_out, out_key_col, out_val_col) ==
    LET raw == {[k |-> r[key_col], v |-> Float(r["exposure_value"])] :
                    r \in d[table_raw]}
        vmin == SeriesMin(Column(raw, "v"))
        vmax == SeriesMax(Column(raw, "v"))
        out == {(out_key_col :> row.k) @@
                (out_val_col :> MinMax(row.v, vmin, vmax)) : row \in raw}
    IN  IF raw = {} THEN d
        ELSE ToSql(SqlDelete(d, table_out), table_out, out)
NormalizeDimension(d, table_raw, key_col, table_out, out_key_col, out_val_col) ==
    LET raw == {[k |-> r[key_col], v |-> Float(r["exposure_value"])] :
                    r \in d[table_raw]}
        vmin == SeriesMin(Column(raw, "v"))
        vmax == SeriesMax(Column(raw, "v"))
        out == {(out_key_col :> row.k) @@
                (out_val_col :> MinMax(row.v, vmin, vmax)) : row \in raw}
    IN  IF raw = {} THEN SqlDelete(d, table_out)
        ELSE ToSql(SqlDelete(d, table_out), table_out, out)

\* a call of normalize_dimension for one of the two dimensions
normalize_dimension(dim) ==
    /\ db' = NormalizeDimension(db, dim[1], dim[2], dim[3], dim[4], dim[5])
    /\ last' = [op |-> "normalize_dimension", table |-> dim[3],
                prior |-> Cardinality(db[dim[3]])]
    /\ UNCHANGED call

-----------------------------------------------------------------------------
(* 2) compute_job_risk *)

\* A JSON value of a feature: a number, or a text float() cannot parse.
\* A SQL value of a rubric index: a number or NULL.
JsonNumber(n) == [t |-> "number", v |-> n]
JsonText == [t |-> "text", v |-> 0]
SqlNull == [t |-> "null", v |-> 0]

\* float(raw_val): the value, or an exception
PyFloat(raw_val) ==
    IF raw_val.t = "number" THEN [ok |-> TRUE, val |-> Float(raw_val.v)]
    ELSE [ok |-> FALSE, val |-> Zero]

\* features_json: the text of a JSON object (items: feature name -> value),
\* text that is no JSON ("invalid"), or JSON that is no object ("array")
NoItems == [n \in {} |-> JsonText]
JsonObject(items) == [kind |-> "object", items |-> items]
JsonInvalid == [kind |-> "invalid", items |-> NoItems]
JsonArray == [kind |-> "array", items |-> NoItems]

\* json.loads inside try/except: a text that is no JSON gives feats = {}
Feats(features_json) ==
    IF features_json.kind = "invalid" THEN NoItems ELSE features_json.items

\* feats.items() raises AttributeError when feats is no dict
HasItems(features_json) == features_json.kind \in {"object", "invalid"}

\* 1e-9, and 5.0
Eps == <<RZero, (<<1, 1>>)>>
Five == Float(5)

Clamp01(x) == PyMax(Zero, PyMin(One, x))

\* the rubric map: norm_key(name) -> (substitution, complementarity), each
\* scaled from 0..5 to 0..1.  Rows are read in table order and a later row
\* of the same key overwrites an earlier one; the raw table holds one row
\* per key here.
RubricIndex(v) ==
    Clamp01(Div(IF v.t # "null" THEN Float(v.v) ELSE Zero, Five))
RubricMap(rb) ==
    [k \in {norm_key(row["name"]) : row \in rb} |->
        LET row == CHOOSE r \in rb : norm_key(r["name"]) = k
        IN  <<RubricIndex(row["substitution_index"]),
              RubricIndex(row["complementarity_index"])>>]

NoMass == [sub_raw |-> Zero, cmp_raw |-> Zero,
           pcs_mass |-> Zero, pcs_den |-> Zero]

\* one turn of the loop over feats.items()
FeatureStepOtherCounts(acc, hdr, raw_val, rubric) ==
    LET f == PyFloat(raw_val)
        val_scaled == Div(PyMax(Zero, PyMin(Five, f.val)), Five)
        k == norm_key(hdr)
        idx == IF k \notin DOMAIN rubric THEN <<Zero, Zero>> ELSE rubric[k]
        cat == category_for(hdr)
    IN  IF ~f.ok THEN acc
        ELSE [sub_raw  |-> Add(acc.sub_raw, Mul(val_scaled, idx[1])),
              cmp_raw  |-> Add(acc.cmp_raw, Mul(val_scaled, idx[2])),
              pcs_mass |-> IF cat \in PCS_SET
                           THEN Add(acc.pcs_mass, val_scaled)
                           ELSE acc.pcs_mass,
              pcs_den  |-> Add(acc.pcs_den, val_scaled)]
FeatureStepSkipsUnmatched(acc, hdr, raw_val, rubric) ==
    LET f == PyFloat(raw_val)
        val_scaled == Div(PyMax(Zero, PyMin(Five, f.val)), Five)
        k == norm_key(hdr)
        cat == category_for(hdr)
    IN  IF ~f.ok \/ k \notin DOMAIN rubric THEN acc
        ELSE [sub_raw  |-> Add(acc.sub_raw, Mul(val_scaled, rubric[k][1])),
              cmp_raw  |-> Add(acc.cmp_raw, Mul(val_scaled, rubric[k][2])),
              pcs_mass |-> IF cat \in PCS_SET
                           THEN Add(acc.pcs_mass, val_scaled)
                           ELSE acc.pcs_mass,
              pcs_den  |-> IF cat \in PCS_SET \/ cat = "ROUTINE"
                           THEN Add(acc.pcs_den, val_scaled)
                           ELSE acc.pcs_den]
FeatureStep(acc, hdr, raw_val, rubric) ==
    LET f == PyFloat(raw_val)
        val_scaled == Div(PyMax(Zero, PyMin(Five, f.val)), Five)
        k == norm_key(hdr)
        idx == IF k \notin DOMAIN rubric THEN <<Zero, Zero>> ELSE rubric[k]
        cat == category_for(hdr)
    IN  IF ~f.ok THEN acc
        ELSE [sub_raw  |-> Add(acc.sub_raw, Mul(val_scaled, idx[1])),
              cmp_raw  |-> Add(acc.cmp_raw, Mul(val_scaled, idx[2])),
              pcs_mass |-> IF cat \in PCS_SET
                           THEN Add(acc.pcs_mass, val_scaled)
                           ELSE acc.pcs_mass,
              pcs_den  |-> IF cat \in PCS_SET \/ cat = "ROUTINE"
                           THEN Add(acc.pcs_den, val_scaled)
                           ELSE acc.pcs_den]

\* the loop over the features not yet visited
RECURSIVE Accumulate(_, _, _, _)
Accumulate(acc, feats, todo, rubric) ==
    IF todo = {} THEN acc
    ELSE LET hdr == CHOOSE h \in todo : TRUE
         IN  Accumulate(FeatureStep(acc, hdr, feats[hdr], rubric),
                        feats, todo \ {hdr}, rubric)

\* base = sub_raw / (sub_raw + cmp_raw + 1e-9)
BaseRisk(sub_raw, cmp_raw) == Div(sub_raw, Add(Add(sub_raw, cmp_raw), Eps))

\* pcs_share = pcs_mass / pcs_den if pcs_den > 0 else 0.0, clamped
PcsShareNoGuard(pcs_mass, pcs_den) == Clamp01(Div(pcs_mass, pcs_den))
PcsShare(pcs_mass, pcs_den) ==
    Clamp01(IF Lt(Zero, pcs_den) THEN Div(pcs_mass, pcs_den) ELSE Zero)

\* job_risk = base * (1 - pcs_share), clamped
JobRiskRawNoPenalty(base, pcs_share) == Clamp01(base)
JobRiskRawByShare(base, pcs_share) == Clamp01(Mul(base, pcs_share))
JobRiskRaw(base, pcs_share) == Clamp01(Mul(base, Sub(One, pcs_share)))

\* the row of one job in job_df
ScoreJob(job_id, features_json, rubric) ==
    LET feats == Feats(features_json)
        m == Accumulate(NoMass, feats, DOMAIN feats, rubric)
        base == BaseRisk(m.sub_raw, m.cmp_raw)
        pcs_share == PcsShare(m.pcs_mass, m.pcs_den)
    IN  [job_id |-> job_id, base |-> base, pcs_share |-> pcs_share,
         job_risk |-> JobRiskRaw(base, pcs_share)]

\* the global min-max normalization of job_risk
RiskNormNoRescale(job_risk, lo, hi) == job_risk
RiskNormFlipped(job_risk, lo, hi) ==
    IF hi = lo THEN Half
    ELSE Div(Sub(hi, job_risk), Sub(hi, lo))
RiskNorm(job_risk, lo, hi) ==
    IF hi = lo THEN Half
    ELSE Div(Sub(job_risk, lo), Sub(hi, lo))

ClearJobRiskOnly(d) == SqlDelete(d, "job_risk")
ClearNoJobTable(d) == d
ClearJobTables(d) == SqlDelete(SqlDelete(d, "job_profile"), "job_risk")

\* does compute_job_risk raise on database d
ComputeRaises(d) ==
    /\ d["job_features_raw"] # {}
    /\ d["ability_skill_rubric_raw"] # {}
    /\ \E r \in d["job_features_raw"] : ~HasItems(r["features_json"])

\* job_df: the rows of all jobs
JobDf(d) ==
    LET rubric == RubricMap(d["ability_skill_rubric_raw"])
    IN  {ScoreJob(r["job_id"], r["features_json"], rubric) :
             r \in d["job_features_raw"]}

\* the database after compute_job_risk(conn) on database d
ComputeJobRisk(d) ==
    LET jf == d["job_features_raw"]
        rb == d["ability_skill_rubric_raw"]
        job_df == JobDf(d)
        lo == SeriesMin(Column(job_df, "job_risk"))
        hi == SeriesMax(Column(job_df, "job_risk"))
    IN  IF jf = {} THEN ClearJobTables(d)
        ELSE IF rb = {} THEN ClearJobTables(d)
        ELSE IF ComputeRaises(d) THEN d
        ELSE IF job_df = {} THEN ClearJobTables(d)
        ELSE ToSql(ToSql(ClearJobTables(d),
                 "job_profile",
                 {("job_id" :> r.job_id) @@ ("pcs_share" :> r.pcs_share) :
                      r \in job_df}),
                 "job_risk",
                 {("job_id" :> r.job_id) @@
                  ("risk" :> RiskNorm(r.job_risk, lo, hi)) : r \in job_df})

compute_job_risk ==
    /\ db' = ComputeJobRisk(db)
    /\ last' = [op |-> IF ComputeRaises(db) THEN "compute_job_risk raised"
                       ELSE "compute_job_risk",
                table |-> "job_risk", prior |-> Cardinality(db["job_risk"])]
    /\ UNCHANGED call

-----------------------------------------------------------------------------
(* The raw exposure tables are seeded and edited from outside the core:    *)
(* one row per key (the key column is the table's primary key).            *)

SeedRow(dim, k, v) == (dim[2] :> k) @@ ("exposure_value" :> v)

InsertExposure(dim, k, v) ==
    /\ k \notin Column(db[dim[1]], dim[2])
    /\ db' = [db EXCEPT ![dim[1]] = @ \cup {SeedRow(dim, k, v)}]
    /\ last' = [op |-> "seed", table |-> dim[1], prior |-> 0]
    /\ UNCHANGED call

DeleteExposure(dim, k) ==
    /\ k \in Column(db[dim[1]], dim[2])
    /\ db' = [db EXCEPT ![dim[1]] = {r \in @ : r[dim[2]] # k}]
    /\ last' = [op |-> "seed", table |-> dim[1], prior |-> 0]
    /\ UNCHANGED call

UpdateExposure(dim, k, v) ==
    /\ \E r \in db[dim[1]] : r[dim[2]] = k /\ r["exposure_value"] # v
    /\ db' = [db EXCEPT ![dim[1]] =
                 {r \in @ : r[dim[2]] # k} \cup {SeedRow(dim, k, v)}]
    /\ last' = [op |-> "seed", table |-> dim[1], prior |-> 0]
    /\ UNCHANGED call

InitDb ==
    /\ db = EmptyDb
    /\ last = [op |-> "init", table |-> "", prior |-> 0]
    /\ call = NoCall

NextNorm ==
    \/ \E dim \in Dimensions : normalize_dimension(dim)
    \/ \E dim \in Dimensions : \E k \in DimKeys(dim) : \E v \in ExposureValues :
           InsertExposure(dim, k, v)
    \/ \E dim \in Dimensions : \E k \in DimKeys(dim) : DeleteExposure(dim, k)
    \/ \E dim \in Dimensions : \E k \in DimKeys(dim) : \E v \in ExposureValues :
           UpdateExposure(dim, k, v)

\* the dimension normalizer under arbitrary edits of the raw tables
SpecNorm == InitDb /\ [][NextNorm]_vars

-----------------------------------------------------------------------------
(* Claims about normalize_dimension, checked under SpecNorm *)

\* normalize_dimension for dim was the last operation on the database, so
\* the raw table is the one it read and the output table the one it wrote
AfterNormalize(dim) ==
    last.op = "normalize_dimension" /\ last.table = dim[3]

RawValues(dim) == Column(db[dim[1]], "exposure_value")

\* the output row(s) of key k
OutRows(dim, k) == {o \in db[dim[3]] : o[dim[4]] = k}

ScenarioARaw ==
    {SeedRow(ProvinceDim, "ON", 10), SeedRow(ProvinceDim, "QC", 20),
     SeedRow(ProvinceDim, "AB", 30)}
ScenarioAOut ==
    {("province_code" :> "ON") @@ ("risk" :> Zero),
     ("province_code" :> "QC") @@ ("risk" :> Half),
     ("province_code" :> "AB") @@ ("risk" :> One)}

\* C1: after normalize_dimension on a non-empty raw table whose values are
\* not all equal, every output risk is in [0,1], every record holding the
\* minimum raw value has risk exactly 0 and every record holding the maximum
\* has risk exactly 1; {ON:10, QC:20, AB:30} gives {ON:0, QC:0.5, AB:1}.
C1_MinMaxBounds ==
    \A dim \in Dimensions :
        (AfterNormalize(dim) /\ Cardinality(RawValues(dim)) > 1) =>
            /\ \A o \in db[dim[3]] : In01(o[dim[5]])
            /\ \A r \in db[dim[1]] :
                   /\ OutRows(dim, r[dim[2]]) # {}
                   /\ (\A s \in db[dim[1]] :
                           r["exposure_value"] <= s["exposure_value"])
                      => \A o \in OutRows(dim, r[dim[2]]) : o[dim[5]] = Zero
                   /\ (\A s \in db[dim[1]] :
                           r["exposure_value"] >= s["exposure_value"])
                      => \A o \in OutRows(dim, r[dim[2]]) : o[dim[5]] = One
            /\ (dim = ProvinceDim /\ db[dim[1]] = ScenarioARaw)
                   => db[dim[3]] = ScenarioAOut

C1_Witness ==
    /\ AfterNormalize(ProvinceDim)
    /\ db["province_risk_raw"] = ScenarioARaw
    /\ db["province_risk"] = ScenarioAOut

\* C2: after normalize_dimension on a non-empty raw table whose values are
\* all equal (a single record included), every record has risk exactly 0.5,
\* and no risk written by normalize_dimension is the NaN of a division by
\* zero.
C2_DegenerateHalf ==
    \A dim \in Dimensions :
        AfterNormalize(dim) =>
            /\ \A o \in db[dim[3]] : ~IsNaN(o[dim[5]])
            /\ Cardinality(RawValues(dim)) = 1 =>
                   /\ \A o \in db[dim[3]] : o[dim[5]] = Half
                   /\ \A r \in db[dim[1]] : OutRows(dim, r[dim[2]]) # {}

C2_Witness ==
    /\ AfterNormalize(ProvinceDim)
    /\ Cardinality(db["province_risk_raw"]) >= 2
    /\ Cardinality(RawValues(ProvinceDim)) = 1
    /\ Cardinality(db["province_risk"]) >= 2
    /\ \A o \in db["province_risk"] : o["risk"] = Half

\* C3: after normalize_dimension on an empty raw table the output table is
\* empty, whatever rows it held before the call.
C3_EmptyClears ==
    \A dim \in Dimensions :
        (AfterNormalize(dim) /\ db[dim[1]] = {}) => db[dim[3]] = {}

C3_Witness ==
    /\ AfterNormalize(ProvinceDim)
    /\ db["province_risk_raw"] = {}
    /\ last.prior > 0
    /\ db["province_risk"] = {}

\* C4: right after normalize_dimension the output table holds exactly one
\* row per key of the raw table and no row of any other key.
C4_FullReplace ==
    \A dim \in Dimensions :
        AfterNormalize(dim) =>
            /\ Column(db[dim[3]], dim[4]) = Column(db[dim[1]], dim[2])
            /\ \A k \in Column(db[dim[1]], dim[2]) :
                   Cardinality(OutRows(dim, k)) = 1

\* the call replaced a larger output table whose rows it did not keep
C4_Witness ==
    /\ AfterNormalize(ProvinceDim)
    /\ db["province_risk_raw"] # {}
    /\ last.prior > Cardinality(db["province_risk_raw"])
    /\ Cardinality(db["province_risk"]) = Cardinality(db["province_risk_raw"])

-----------------------------------------------------------------------------
(* category_for called on bounded names *)

\* the words and the separators a name is built from, and how many words
MaxNameWords == 2
NameWords ==
    {W(t, c) : t \in {"monitoring", "repairing", "product", "design",
                      "negotiating", "reading", "monitorings"},
               c \in {"T", "l", "U"}}
NameSeparators == {P(" "), P("-")}

RECURSIVE NamesOf(_)
NamesOf(n) ==
    IF n = 0 THEN {EmptyStr}
    ELSE IF n = 1 THEN {<<w>> : w \in NameWords}
    ELSE {s \o <<p, w>> : s \in NamesOf(n - 1), p \in NameSeparators,
                           w \in NameWords}
NameInputs == {None} \cup UNION {NamesOf(n) : n \in 0..MaxNameWords}

InitCat ==
    /\ db = EmptyDb
    /\ last = [op |-> "init", table |-> "", prior |-> 0]
    /\ \E n \in NameInputs :
           call = [fn |-> "category_for", arg |-> n, done |-> FALSE,
                   result |-> ""]

CallCategoryFor ==
    /\ call.fn = "category_for" /\ ~call.done
    /\ call' = [call EXCEPT !.done = TRUE, !.result = category_for(call.arg)]
    /\ UNCHANGED <<db, last>>

NextCat == CallCategoryFor

SpecCat == InitCat /\ [][NextCat]_vars

\* C8: category_for returns exactly one of the five labels for every input,
\* None and the empty string included; the rules are tried in the order
\* ROUTINE, PHYSICAL, CREATIVE, SOCIAL and the first whose pattern occurs in
\* the name decides; a name in which no pattern occurs is OTHER.
C8_FirstRuleWins ==
    (call.fn = "category_for" /\ call.done) =>
        LET name == IF call.arg = None THEN EmptyStr ELSE call.arg
            r == Search(Compile(RoutineRx), name)
            p == Search(Compile(PhysicalRx), name)
            c == Search(Compile(CreativeRx), name)
            o == Search(Compile(SocialRx), name)
        IN  /\ call.result \in
                   {"ROUTINE", "PHYSICAL", "CREATIVE", "SOCIAL", "OTHER"}
            /\ call.result = "ROUTINE" <=> r
            /\ call.result = "PHYSICAL" <=> (~r /\ p)
            /\ call.result = "CREATIVE" <=> (~r /\ ~p /\ c)
            /\ call.result = "SOCIAL" <=> (~r /\ ~p /\ ~c /\ o)
            /\ call.result = "OTHER" <=> (~r /\ ~p /\ ~c /\ ~o)

\* a name in which a ROUTINE and a PHYSICAL pattern both occur is ROUTINE
C8_Witness ==
    /\ call.fn = "category_for" /\ call.done
    /\ call.arg # None
    /\ Search(Compile(RoutineRx), call.arg) /\ Search(Compile(PhysicalRx), call.arg)
    /\ call.result = "ROUTINE"

-----------------------------------------------------------------------------
(* The job engine on seeded databases: init_db.py loads job_features_raw   *)
(* (one row per job_id) and ability_skill_rubric_raw, then the engine runs *)

FRepairing     == <<W("repairing", "T")>>
FMonitoring    == <<W("monitoring", "T")>>
FProductDesign == <<W("product", "T"), P(" "), W("design", "T")>>
FNegotiating   == <<W("negotiating", "T")>>
FReading       == <<W("reading", "T"), P(" "), W("comprehension", "T")>>
FeatureNames ==
    {FRepairing, FMonitoring, FProductDesign, FNegotiating, FReading}

RubricRow(name, s, c) ==
    ("name" :> name) @@ ("substitution_index" :> s) @@
    ("complementarity_index" :> c)

\* the rubric names differ from the feature names in case and punctuation
FullRubric ==
    {RubricRow(<<W("repairing", "l")>>, JsonNumber(5), JsonNumber(1)),
     RubricRow(<<W("monitoring", "U")>>, JsonNumber(5), JsonNumber(1)),
     RubricRow(<<W("product", "l"), P("-"), W("design", "l")>>,
               JsonNumber(1), JsonNumber(5)),
     RubricRow(<<W("negotiating", "T")>>, SqlNull, JsonNumber(5)),
     RubricRow(<<W("reading", "T"), P(" "), W("comprehension", "T")>>,
               JsonNumber(4), JsonNumber(2))}
PartialRubric ==
    {r \in FullRubric :
         norm_key(r["name"]) \notin {norm_key(FRepairing), norm_key(FReading)}}
Rubrics == {FullRubric, PartialRubric}

JobIdNames == <<"0001", "0002", "0003", "0004", "0005">>

JobRow(job_id, features_json) ==
    ("job_id" :> job_id) @@ ("features_json" :> features_json)

\* the database after init_db.py with the given jobs and rubric
Seeded(cohort, rubric) ==
    [EmptyDb EXCEPT
        !["job_features_raw"] = {JobRow(j, cohort[j]) : j \in DOMAIN cohort},
        !["ability_skill_rubric_raw"] = rubric]

Cohorts(ids, payloads) ==
    UNION {[S -> payloads] : S \in (SUBSET ids) \ {{}}}

\* Cohorts of up to NumJobs jobs, each with one of a few feature documents
NumJobs == 3
JobIds == {JobIdNames[i] : i \in 1..NumJobs}

Items1(n, v) == n :> v
Items2(n1, v1, n2, v2) == (n1 :> v1) @@ (n2 :> v2)
Items3(n1, v1, n2, v2, n3, v3) == (n1 :> v1) @@ (n2 :> v2) @@ (n3 :> v3)

CohortPayloads ==
    {JsonObject(NoItems),
     JsonInvalid,
     JsonArray,
     JsonObject(Items1(FRepairing, JsonNumber(5))),
     JsonObject(Items1(FMonitoring, JsonNumber(5))),
     JsonObject(Items1(FMonitoring, JsonNumber(1))),
     JsonObject(Items2(FMonitoring, JsonNumber(5), FNegotiating, JsonNumber(2))),
     JsonObject(Items2(FMonitoring, JsonNumber(7), FReading, JsonText)),
     JsonObject(Items3(FProductDesign, JsonNumber(5), FMonitoring, JsonNumber(5),
                       FReading, JsonNumber(5)))}

InitCohort ==
    /\ \E cohort \in Cohorts(JobIds, CohortPayloads) : \E rubric \in Rubrics :
           db = Seeded(cohort, rubric)
    /\ last = [op |-> "init", table |-> "", prior |-> 0]
    /\ call = NoCall

NextEngine == compute_job_risk

SpecCohort == InitCohort /\ [][NextEngine]_vars

\* Two jobs, each with any document of up to MaxFeatures features at
\* level 2 or 5
MaxFeatures == 3
ScoreLevels == {JsonNumber(2), JsonNumber(7)}
TopLevel == {JsonNumber(7)}
ScorePayloads(levels) ==
    {JsonObject(items) :
        items \in UNION {[S -> levels] :
                            S \in {T \in SUBSET FeatureNames :
                                       Cardinality(T) <= MaxFeatures}}}

\* two jobs: one with any features at the levels of ScoreLevels, one with
\* any features at a level above the scale
InitScore ==
    /\ \E p1 \in ScorePayloads(ScoreLevels) : \E p2 \in ScorePayloads(TopLevel) :
           db = Seeded(("0001" :> p1) @@ ("0002" :> p2), FullRubric)
    /\ last = [op |-> "init", table |-> "", prior |-> 0]
    /\ call = NoCall

SpecScore == InitScore /\ [][NextEngine]_vars

-----------------------------------------------------------------------------
(* Claims about compute_job_risk *)

\* compute_job_risk was the last operation on the database and returned:
\* the raw tables are those it read, the job tables those it wrote
AfterCompute == last.op = "compute_job_risk"

RawRisks == Column(JobDf(db), "job_risk")
Risks == Column(db["job_risk"], "risk")

\* C5: after compute_job_risk, every persisted job_risk is in [0,1]; when
\* the penalized raw risks of the cohort are not all equal the smallest
\* persisted job_risk is exactly 0 and the largest exactly 1; when they are
\* all equal (a cohort of one job included) every persisted job_risk is 0.5.
C5_GlobalBounds ==
    AfterCompute =>
        /\ Risks # {}
        /\ \A x \in Risks : In01(x)
        /\ Cardinality(RawRisks) > 1 => (Zero \in Risks /\ One \in Risks)
        /\ Cardinality(RawRisks) = 1 => Risks = {Half}

\* a cohort of three jobs with a job strictly between the two ends
C5_Witness ==
    /\ AfterCompute
    /\ Cardinality(db["job_risk"]) = 3
    /\ Zero \in Risks /\ One \in Risks
    /\ \E x \in Risks : Lt(Zero, x) /\ Lt(x, One)

RisksOf(job_id) == {r["risk"] : r \in {x \in db["job_risk"] : x["job_id"] = job_id}}

\* C7 as claimed: after compute_job_risk every job whose pcs_share is 1 has
\* job_risk 0 in the job_risk table, whatever the cohort.
C7_ShareOneIsZero ==
    AfterCompute =>
        \A p \in db["job_profile"] :
            p["pcs_share"] = One => RisksOf(p["job_id"]) = {Zero}

\* C7 amended: a job whose pcs_share is 1 has penalized raw risk 0 whatever
\* its base risk; its persisted job_risk is 0 when the raw risks of the
\* cohort are not all equal and 0.5 when they are all equal.
C7_ShareOneIsMinimum ==
    AfterCompute =>
        /\ \A r \in JobDf(db) : r.pcs_share = One => r.job_risk = Zero
        /\ \A p \in db["job_profile"] :
               p["pcs_share"] = One =>
                   RisksOf(p["job_id"]) =
                       {IF Cardinality(RawRisks) > 1 THEN Zero ELSE Half}

\* a job of pcs_share 1 and positive base risk, persisted with risk 0 beside
\* a job persisted with risk 1
C7_Witness ==
    /\ AfterCompute
    /\ \E r \in JobDf(db) :
           /\ r.pcs_share = One
           /\ Lt(Zero, r.base)
           /\ RisksOf(r.job_id) = {Zero}
    /\ One \in Risks

\* the scaled level of a feature value: clamped to 0..5, divided by 5
Level01(raw_val) ==
    Div(PyMax(Zero, PyMin(Five, Float(raw_val.v))), Five)

\* the sum of the scaled levels of the numeric features of feats, among
\* names, whose category is in cats
RECURSIVE CategoryMass(_, _, _)
CategoryMass(feats, names, cats) ==
    IF names = {} THEN Zero
    ELSE LET h == CHOOSE n \in names : TRUE
             rest == CategoryMass(feats, names \ {h}, cats)
         IN  IF feats[h].t = "number" /\ category_for(h) \in cats
             THEN Add(Level01(feats[h]), rest)
             ELSE rest

ExpectedShare(feats) ==
    LET pcs == CategoryMass(feats, DOMAIN feats,
                            {"PHYSICAL", "CREATIVE", "SOCIAL"})
        routine == CategoryMass(feats, DOMAIN feats, {"ROUTINE"})
    IN  IF Add(pcs, routine) = Zero THEN Zero
        ELSE Div(pcs, Add(pcs, routine))

\* feats without its OTHER-category features
NonOther(feats) ==
    [h \in {n \in DOMAIN feats : category_for(n) # "OTHER"} |-> feats[h]]

SharesOf(job_id) ==
    {p["pcs_share"] : p \in {x \in db["job_profile"] : x["job_id"] = job_id}}

\* C9: after compute_job_risk the pcs_share of every job is the sum of the
\* scaled levels of its PHYSICAL, CREATIVE and SOCIAL features divided by
\* that sum plus the sum of the scaled levels of its ROUTINE features, 0
\* when that denominator is 0, and in [0,1]; two jobs whose features differ
\* only in OTHER-category features have the same pcs_share.
C9_PcsShare ==
    AfterCompute =>
        /\ \A r \in db["job_features_raw"] :
               LET feats == Feats(r["features_json"])
               IN  /\ SharesOf(r["job_id"]) = {ExpectedShare(feats)}
                   /\ In01(ExpectedShare(feats))
        /\ \A r1, r2 \in db["job_features_raw"] :
               NonOther(Feats(r1["features_json"])) =
                   NonOther(Feats(r2["features_json"]))
               => SharesOf(r1["job_id"]) = SharesOf(r2["job_id"])

\* two jobs that differ in an OTHER feature only, with the same pcs_share
\* strictly between 0 and 1
C9_Witness ==
    /\ AfterCompute
    /\ \E r1, r2 \in db["job_features_raw"] :
           /\ r1["features_json"] # r2["features_json"]
           /\ NonOther(Feats(r1["features_json"])) =
                  NonOther(Feats(r2["features_json"]))
           /\ SharesOf(r1["job_id"]) = SharesOf(r2["job_id"])
           /\ \E x \in SharesOf(r1["job_id"]) : Lt(Zero, x) /\ Lt(x, One)

-----------------------------------------------------------------------------
(* The PCS penalty on its own: base risks of jobs whose substitution and   *)
(* complementarity masses lie on a grid, penalized at two PCS shares       *)

MaxMass == 4
MassGrid == {Frac(i, 2) : i \in 0..MaxMass}
PcsSteps == 5
ShareGrid == {Frac(k, PcsSteps) : k \in 0..PcsSteps}

InitPenalty ==
    /\ db = EmptyDb
    /\ last = [op |-> "init", table |-> "", prior |-> 0]
    /\ \E sub_raw \in MassGrid : \E cmp_raw \in MassGrid :
       \E pcs_a \in ShareGrid : \E pcs_b \in ShareGrid :
           call = [fn |-> "job_risk_raw", base |-> BaseRisk(sub_raw, cmp_raw),
                   pcs_a |-> pcs_a, pcs_b |-> pcs_b, done |-> FALSE,
                   risk_a |-> Zero, risk_b |-> Zero]

CallJobRiskRaw ==
    /\ call.fn = "job_risk_raw" /\ ~call.done
    /\ call' = [call EXCEPT !.done = TRUE,
                            !.risk_a = JobRiskRaw(call.base, call.pcs_a),
                            !.risk_b = JobRiskRaw(call.base, call.pcs_b)]
    /\ UNCHANGED <<db, last>>

NextPenalty == CallJobRiskRaw

SpecPenalty == InitPenalty /\ [][NextPenalty]_vars

\* C6: for one base risk, the penalized raw job risk at the larger of two
\* PCS shares in [0,1] is at most that at the smaller; at PCS share 0 it is
\* the base risk; it is always in [0,1].
C6_PenaltyMonotone ==
    (call.fn = "job_risk_raw" /\ call.done) =>
        /\ Le(call.pcs_a, call.pcs_b) => Le(call.risk_b, call.risk_a)
        /\ call.pcs_a = Zero => call.risk_a = call.base
        /\ In01(call.risk_a) /\ In01(call.risk_b)

\* a positive base risk penalized at two different shares, strictly less at
\* the larger one, and left whole at share 0
C6_Witness ==
    /\ call.fn = "job_risk_raw" /\ call.done
    /\ call.pcs_a = Zero /\ Lt(Zero, call.pcs_b) /\ Lt(call.pcs_b, One)
    /\ Lt(Zero, call.risk_b) /\ Lt(call.risk_b, call.risk_a)
    /\ call.risk_a = call.base

-----------------------------------------------------------------------------
(* tapered_weights *)

\* the base weights before taper
BASE_W_PROVINCE == Frac(10, 100)
BASE_W_ETHNICITY == Frac(15, 100)
BASE_W_JOB == Frac(75, 100)

\* the job weight is a share of the whole instead of the remainder
TaperedWeightsFixedJob(pcs_share, w_province, w_ethnicity) ==
    LET pcs == PyMax(Zero, PyMin(One, pcs_share))
    IN  [province  |-> Mul(w_province, Sub(One, pcs)),
         ethnicity |-> Mul(w_ethnicity, Sub(One, pcs)),
         job       |-> Sub(One, Add(w_province, w_ethnicity))]
\* the province and ethnicity weights are not tapered
TaperedWeightsNoTaper(pcs_share, w_province, w_ethnicity) ==
    [province  |-> w_province,
     ethnicity |-> w_ethnicity,
     job       |-> Sub(One, Add(w_province, w_ethnicity))]
\* the body of tapered_weights, for base weights w_province, w_ethnicity
TaperedWeights(pcs_share, w_province, w_ethnicity) ==
    LET pcs == PyMax(Zero, PyMin(One, pcs_share))
        w_p == Mul(w_province, Sub(One, pcs))
        w_e == Mul(w_ethnicity, Sub(One, pcs))
        w_j == Sub(One, Add(w_p, w_e))
        s == Add(Add(w_p, w_e), w_j)
    IN  [province  |-> IF s # Zero THEN Div(w_p, s) ELSE Zero,
         ethnicity |-> IF s # Zero THEN Div(w_e, s) ELSE Zero,
         job       |-> IF s # Zero THEN Div(w_j, s) ELSE One]

tapered_weights(pcs_share) ==
    TaperedWeights(pcs_share, BASE_W_PROVINCE, BASE_W_ETHNICITY)

\* base weights on a grid, the three of them summing to 1, and PCS shares
\* on a grid from -1 to 2
WeightSteps == 20
WeightGrid == {Frac(k, WeightSteps) : k \in 0..WeightSteps}
PcsInputs == {Frac(k, PcsSteps) : k \in (0 - PcsSteps)..(2 * PcsSteps)}

InitTaper ==
    /\ db = EmptyDb
    /\ last = [op |-> "init", table |-> "", prior |-> 0]
    /\ \E w_p \in WeightGrid : \E w_e \in WeightGrid : \E pcs \in PcsInputs :
           /\ Le(Add(w_p, w_e), One)
           /\ call = [fn |-> "tapered_weights", pcs_share |-> pcs,
                      w_province |-> w_p, w_ethnicity |-> w_e,
                      w_job |-> Sub(One, Add(w_p, w_e)),
                      done |-> FALSE,
                      result |-> [province |-> Zero, ethnicity |-> Zero,
                                  job |-> Zero]]

CallTaperedWeights ==
    /\ call.fn = "tapered_weights" /\ ~call.done
    /\ call' = [call EXCEPT
                    !.done = TRUE,
                    !.result = TaperedWeights(call.pcs_share, call.w_province,
                                              call.w_ethnicity)]
    /\ UNCHANGED <<db, last>>

NextTaper == CallTaperedWeights

SpecTaper == InitTaper /\ [][NextTaper]_vars

\* C10: for every PCS share, inside [0,1] or not, and base weights that sum
\* to 1, each of the three weights tapered_weights returns is in [0,1] and
\* the three sum to 1.
C10_WeightsSumToOne ==
    (call.fn = "tapered_weights" /\ call.done) =>
        LET w == call.result
        IN  /\ In01(w.province) /\ In01(w.ethnicity) /\ In01(w.job)
            /\ Add(Add(w.province, w.ethnicity), w.job) = One

\* the program's base weights tapered at a PCS share strictly inside (0,1)
C10_Witness ==
    /\ call.fn = "tapered_weights" /\ call.done
    /\ call.w_province = BASE_W_PROVINCE
    /\ call.w_ethnicity = BASE_W_ETHNICITY
    /\ call.w_job = BASE_W_JOB
    /\ Lt(Zero, call.pcs_share) /\ Lt(call.pcs_share, One)
    /\ call.result = tapered_weights(call.pcs_share)
    /\ Lt(call.result.province, BASE_W_PROVINCE)
    /\ Lt(BASE_W_JOB, call.result.job)

\* the call of tapered_weights was made with the program's base weights
ProgramWeights ==
    /\ call.w_province = BASE_W_PROVINCE
    /\ call.w_ethnicity = BASE_W_ETHNICITY
    /\ call.w_job = BASE_W_JOB

Weights(p, e, j) == [province |-> p, ethnicity |-> e, job |-> j]

\* C11: tapered_weights returns province = w_p*(1 - pcs), ethnicity =
\* w_e*(1 - pcs) and job = 1 minus their sum, pcs being pcs_share clamped
\* to [0,1]; with the base weights (0.10, 0.15, 0.75) the result is the base
\* weights at pcs_share 0, (0, 0, 1) at pcs_share 1 and (0.06, 0.09, 0.85)
\* at pcs_share 0.4; at any larger pcs_share the province and ethnicity
\* weights are no larger and the job weight no smaller.
C11_TaperFormula ==
    (call.fn = "tapered_weights" /\ call.done) =>
        LET pcs == PyMax(Zero, PyMin(One, call.pcs_share))
            w == call.result
        IN  /\ w.province = Mul(call.w_province, Sub(One, pcs))
            /\ w.ethnicity = Mul(call.w_ethnicity, Sub(One, pcs))
            /\ w.job = Sub(One, Add(w.province, w.ethnicity))
            /\ (ProgramWeights /\ call.pcs_share = Zero) =>
                   w = Weights(Frac(10, 100), Frac(15, 100), Frac(75, 100))
            /\ (ProgramWeights /\ call.pcs_share = One) =>
                   w = Weights(Zero, Zero, One)
            /\ (ProgramWeights /\ call.pcs_share = Frac(4, 10)) =>
                   w = Weights(Frac(6, 100), Frac(9, 100), Frac(85, 100))
            /\ \A q \in PcsInputs :
                   Le(call.pcs_share, q) =>
                       LET v == TaperedWeights(q, call.w_province,
                                               call.w_ethnicity)
                       IN  /\ Le(v.province, w.province)
                           /\ Le(v.ethnicity, w.ethnicity)
                           /\ Le(w.job, v.job)

\* the program's base weights tapered at pcs_share 0.4
C11_Witness ==
    /\ call.fn = "tapered_weights" /\ call.done
    /\ ProgramWeights
    /\ call.pcs_share = Frac(4, 10)
    /\ call.result = Weights(Frac(6, 100), Frac(9, 100), Frac(85, 100))

-----------------------------------------------------------------------------
(* Claims about jobs without features, empty sources and recomputation *)

\* the rows of job_features_raw whose document is {} or cannot be parsed
NoFeatureRows(d) ==
    {r \in d["job_features_raw"] :
         r["features_json"].kind \in {"object", "invalid"}
         /\ Feats(r["features_json"]) = NoItems}

JobIdsOf(rows) == {r["job_id"] : r \in rows}

\* C12: after compute_job_risk a job whose feature document is {} or cannot
\* be parsed has no row in job_profile and no row in job_risk, and the
\* job_risk of the other jobs is what the run gives without that job.
C12_NoFeaturesNoRow ==
    AfterCompute =>
        LET out == NoFeatureRows(db)
            rest == [db EXCEPT !["job_features_raw"] = @ \ out]
        IN  /\ JobIdsOf(out) \cap JobIdsOf(db["job_profile"]) = {}
            /\ JobIdsOf(out) \cap JobIdsOf(db["job_risk"]) = {}
            /\ db["job_risk"] = ComputeJobRisk(rest)["job_risk"]

\* a job with no features is written with job_risk 0 and sets the lower end
\* of the scale for a job that is written with job_risk 1
C12_Witness ==
    /\ AfterCompute
    /\ \E r \in NoFeatureRows(db) : RisksOf(r["job_id"]) = {Zero}
    /\ Cardinality(db["job_risk"]) = 2
    /\ One \in Risks

-----------------------------------------------------------------------------
(* Recomputation over raw tables that change between runs *)

\* on_startup and admin_recompute: the two normalizers, then the job engine,
\* on one connection.  Each normalizer commits; a job engine that raises
\* leaves the job tables as they were.
Recompute(d) ==
    LET d1 == NormalizeDimension(d, ProvinceDim[1], ProvinceDim[2],
                                 ProvinceDim[3], ProvinceDim[4], ProvinceDim[5])
        d2 == NormalizeDimension(d1, EthnicityDim[1], EthnicityDim[2],
                                 EthnicityDim[3], EthnicityDim[4],
                                 EthnicityDim[5])
    IN  ComputeJobRisk(d2)

RecomputeOps == {"recompute", "recompute raised"}

\* runs: the number of recomputations in a row, this one included, counted
\* to 2
recompute ==
    /\ db' = Recompute(db)
    /\ last' = [op |-> IF ComputeRaises(db) THEN "recompute raised"
                       ELSE "recompute",
                table |-> "job_risk", prior |-> Cardinality(db["job_risk"]),
                runs |-> IF last.op \in RecomputeOps THEN 2 ELSE 1]
    /\ UNCHANGED call

\* the raw tables a load can leave
LoadedExposures(dim) ==
    IF dim = ProvinceDim
    THEN {{}, {SeedRow(dim, "ON", 10)},
          {SeedRow(dim, "ON", 10), SeedRow(dim, "QC", 20)}}
    ELSE {{}, {SeedRow(dim, "E1", 10)}}

LoadedCohorts ==
    {<< >>,
     ("0001" :> JsonObject(Items1(FRepairing, JsonNumber(5)))),
     ("0001" :> JsonObject(Items1(FRepairing, JsonNumber(5)))) @@
         ("0002" :> JsonObject(Items1(FMonitoring, JsonNumber(5)))),
     ("0001" :> JsonObject(Items1(FMonitoring, JsonNumber(5)))) @@
         ("0002" :> JsonObject(NoItems)),
     ("0001" :> JsonObject(Items1(FMonitoring, JsonNumber(5)))) @@
         ("0002" :> JsonArray),
     ("0002" :> JsonObject(Items2(FMonitoring, JsonNumber(5),
                                  FNegotiating, JsonNumber(2))))}

LoadedRubrics == {{}, FullRubric, PartialRubric}

\* the raw exposure table of a dimension is replaced
LoadExposure(dim, rows) ==
    /\ db[dim[1]] # rows
    /\ db' = [db EXCEPT ![dim[1]] = rows]
    /\ last' = [op |-> "seed", table |-> "", prior |-> 0]
    /\ UNCHANGED call

\* load_job_features: job_features_raw is replaced by the rows of a cohort
LoadJobFeatures(cohort) ==
    /\ db' = [db EXCEPT !["job_features_raw"] =
                 {JobRow(j, cohort[j]) : j \in DOMAIN cohort}]
    /\ db' # db
    /\ last' = [op |-> "seed", table |-> "", prior |-> 0]
    /\ UNCHANGED call

\* the rubric table is replaced
LoadRubric(rubric) ==
    /\ db["ability_skill_rubric_raw"] # rubric
    /\ db' = [db EXCEPT !["ability_skill_rubric_raw"] = rubric]
    /\ last' = [op |-> "seed", table |-> "", prior |-> 0]
    /\ UNCHANGED call

NextRecompute ==
    \/ \E dim \in Dimensions : \E rows \in LoadedExposures(dim) :
           LoadExposure(dim, rows)
    \/ \E cohort \in LoadedCohorts : LoadJobFeatures(cohort)
    \/ \E rubric \in LoadedRubrics : LoadRubric(rubric)
    \/ recompute

\* the whole recomputation between loads of the raw tables
SpecRecompute == InitDb /\ [][NextRecompute]_vars

NextReload ==
    \/ \E cohort \in LoadedCohorts : LoadJobFeatures(cohort)
    \/ \E rubric \in LoadedRubrics : LoadRubric(rubric)
    \/ compute_job_risk

\* the job engine between loads of the job features and the rubric
SpecReload == InitDb /\ [][NextReload]_vars

\* C13: when compute_job_risk has run on an empty job_features_raw or an
\* empty ability_skill_rubric_raw, job_profile and job_risk are both empty,
\* whatever rows they held before the call.
C13_EmptySourceClears ==
    (last.op \in {"compute_job_risk", "compute_job_risk raised"}
     /\ (db["job_features_raw"] = {} \/ db["ability_skill_rubric_raw"] = {}))
    => (db["job_profile"] = {} /\ db["job_risk"] = {})

\* the call found rows of an earlier run and an empty rubric beside a
\* non-empty job_features_raw, and left both tables empty
C13_Witness ==
    /\ last.op = "compute_job_risk"
    /\ last.prior > 0
    /\ db["job_features_raw"] # {}
    /\ db["ability_skill_rubric_raw"] = {}
    /\ db["job_profile"] = {} /\ db["job_risk"] = {}

DerivedTables == {"province_risk", "ethnicity_risk", "job_profile", "job_risk"}
Derived(d) == [t \in DerivedTables |-> d[t]]
\* the database with the raw tables of d and empty derived tables
RawOnly(d) == [t \in DOMAIN d |-> IF t \in DerivedTables THEN {} ELSE d[t]]

\* after a recomputation that returned, the derived tables are what the
\* recomputation gives on the same raw tables and empty derived tables
DerivedFromRawOnly ==
    last.op = "recompute" => Derived(db) = Derived(Recompute(RawOnly(db)))

\* a recomputation right after a recomputation leaves the derived tables
\* as they were
SecondRunChangesNothing ==
    (last.op \in RecomputeOps /\ last'.op \in RecomputeOps)
    => Derived(db') = Derived(db)

-----------------------------------------------------------------------------
(* Claims about malformed documents, the row sets and missing rubric rows *)

ComputeOps == {"compute_job_risk", "compute_job_risk raised"}

\* feats without the features whose value float() cannot convert
NumericOnly(feats) ==
    [h \in {n \in DOMAIN feats : feats[n].t = "number"} |-> feats[h]]

\* C15: whatever one job's features_json holds (text that is no JSON, JSON
\* that is no object, an object with values that are no numbers),
\* compute_job_risk returns without raising and writes the rows of every
\* job; a feature whose value is no number adds to none of the sums, so
\* the job is scored as if the feature were absent.
C15_MalformedAbsorbed ==
    (last.op \in ComputeOps /\ db["job_features_raw"] # {}
     /\ db["ability_skill_rubric_raw"] # {}) =>
        /\ last.op = "compute_job_risk"
        /\ JobIdsOf(db["job_risk"]) = JobIdsOf(db["job_features_raw"])
        /\ JobIdsOf(db["job_profile"]) = JobIdsOf(db["job_features_raw"])
        /\ \A r \in db["job_features_raw"] :
               LET rubric == RubricMap(db["ability_skill_rubric_raw"])
                   doc == r["features_json"]
               IN  ScoreJob(r["job_id"], doc, rubric) =
                       ScoreJob(r["job_id"],
                                JsonObject(NumericOnly(Feats(doc))), rubric)

\* the call raised on a cohort with a well-formed job and wrote no row
C15_Witness ==
    /\ last.op = "compute_job_risk raised"
    /\ \E r \in db["job_features_raw"] :
           r["features_json"].kind = "object"
           /\ DOMAIN r["features_json"].items # {}
    /\ \E r \in db["job_features_raw"] : r["features_json"].kind = "array"
    /\ db["job_risk"] = {} /\ db["job_profile"] = {}

RowsOfJob(rows, job_id) == {r \in rows : r["job_id"] = job_id}

-----------------------------------------------------------------------------
(* POST /score *)

\* round(x, 2) of a number that is not negative: the nearest hundredth, a
\* tie going to the even one
PyRound2(x) ==
    LET n == 100 * x[1][1]
        d == x[1][2]
        q == n \div d
        r == n % d
    IN  Frac(IF 2 * r < d THEN q
             ELSE IF 2 * r > d THEN q + 1
             ELSE IF q % 2 = 0 THEN q ELSE q + 1, 100)

band(score) ==
    IF Lt(score, Frac(33, 100)) THEN "Low"
    ELSE IF Lt(score, Frac(66, 100)) THEN "Medium"
    ELSE "High"

\* q1: the rows the query finds; the tables hold at most one row per key
Q1AnyKey(d, t, key_col, key) == d[t]
Q1(d, t, key_col, key) == {r \in d[t] : r[key_col] = key}
Row(rows) == CHOOSE r \in rows : TRUE

IfMissing(rows, label) == IF rows = {} THEN <<label>> ELSE << >>

\* the three components are added without weights
ScoreValUnweighted(components, weights) ==
    Clamp01(Add(Add(components.province, components.ethnicity),
                components.job))
\* score_val: the weighted sum of the components, clamped
ScoreVal(components, weights) ==
    Clamp01(Add(Add(Mul(components.province, weights.province),
                    Mul(components.ethnicity, weights.ethnicity)),
                Mul(components.job, weights.job)))

\* the handler of POST /score on database d: the response, with the
\* unrounded score and weights it was made from
Score(d, req) ==
    LET pr == Q1(d, "province_risk", "province_code", req.province_code)
        er == Q1(d, "ethnicity_risk", "ethnicity_code", req.ethnicity_code)
        jr == Q1(d, "job_risk", "job_id", req.job_id)
        jp == Q1(d, "job_profile", "job_id", req.job_id)
        missing == IfMissing(pr, "province_risk (normalized)")
                   \o IfMissing(er, "ethnicity_risk (normalized)")
                   \o IfMissing(jr, "job_risk (computed)")
                   \o IfMissing(jp, "job_profile (pcs_share)")
        components == Weights(Row(pr)["risk"], Row(er)["risk"],
                              Row(jr)["risk"])
        weights == tapered_weights(Row(jp)["pcs_share"])
        score_val == ScoreVal(components, weights)
    IN  IF missing # << >>
        THEN [status |-> 422, error |-> "Missing components",
              missing |-> missing]
        ELSE [status |-> 200,
              components |-> Weights(PyRound2(components.province),
                                     PyRound2(components.ethnicity),
                                     PyRound2(components.job)),
              weights |-> Weights(PyRound2(weights.province),
                                  PyRound2(weights.ethnicity),
                                  PyRound2(weights.job)),
              score |-> PyRound2(score_val),
              band |-> band(score_val),
              raw_components |-> components,
              raw_weights |-> weights,
              score_val |-> score_val]

\* derived tables with at most one row each, of risks on a grid and PCS
\* shares on a grid from -1 to 2, and requests for a province that may have
\* a row and one that has none
RiskSteps == 8
RiskGrid == {Frac(k, RiskSteps) : k \in 0..RiskSteps}
OneRowOrNone(key_col, key, val_col, vals) ==
    {{}} \cup {{(key_col :> key) @@ (val_col :> v)} : v \in vals}

InitApi ==
    /\ \E p \in OneRowOrNone("province_code", "ON", "risk", RiskGrid) :
       \E e \in OneRowOrNone("ethnicity_code", "E1", "risk", RiskGrid) :
       \E j \in OneRowOrNone("job_id", "0001", "risk", RiskGrid) :
       \E s \in OneRowOrNone("job_id", "0001", "pcs_share", PcsInputs) :
           db = [EmptyDb EXCEPT !["province_risk"] = p,
                                !["ethnicity_risk"] = e,
                                !["job_risk"] = j,
                                !["job_profile"] = s]
    /\ last = [op |-> "init", table |-> "", prior |-> 0]
    /\ call = NoCall

score(req) ==
    /\ call = NoCall
    /\ call' = [fn |-> "score", req |-> req, response |-> Score(db, req)]
    /\ UNCHANGED <<db, last>>

Requests ==
    [province_code : {"ON", "QC"}, ethnicity_code : {"E1"}, job_id : {"0001"}]

NextApi == \E req \in Requests : score(req)

SpecApi == InitApi /\ [][NextApi]_vars

Min3(c) == PyMin(c.province, PyMin(c.ethnicity, c.job))
Max3(c) == PyMax(c.province, PyMax(c.ethnicity, c.job))

\* C16: the score of a request that finds its four rows is the sum of the
\* three components, each times its tapered weight, clamped to [0,1]; with
\* components in [0,1] it is in [0,1] and neither below the smallest nor
\* above the largest component, whatever the PCS share.
C16_ScoreIsWeightedMean ==
    (call.fn = "score" /\ call.response.status = 200) =>
        LET c == call.response.raw_components
            w == tapered_weights(Row(db["job_profile"])["pcs_share"])
            x == call.response.score_val
        IN  (In01(c.province) /\ In01(c.ethnicity) /\ In01(c.job)) =>
                /\ x = Clamp01(Add(Add(Mul(c.province, w.province),
                                       Mul(c.ethnicity, w.ethnicity)),
                                   Mul(c.job, w.job)))
                /\ In01(x)
                /\ Le(Min3(c), x) /\ Le(x, Max3(c))

\* three different components and a PCS share inside (0,1): the score is
\* strictly between the smallest and the largest component
C16_Witness ==
    /\ call.fn = "score" /\ call.response.status = 200
    /\ LET c == call.response.raw_components
           x == call.response.score_val
           s == Row(db["job_profile"])["pcs_share"]
       IN  /\ Lt(Zero, s) /\ Lt(s, One)
           /\ Lt(c.province, c.ethnicity) /\ Lt(c.ethnicity, c.job)
           /\ Lt(Min3(c), x) /\ Lt(x, Max3(c))


\* the labels of the derived rows the database lacks for a request
HasRow(t, key_col, key) == \E r \in db[t] : r[key_col] = key
MissingLabels(req) ==
    (IF HasRow("province_risk", "province_code", req.province_code)
     THEN {} ELSE {"province_risk (normalized)"})
    \cup (IF HasRow("ethnicity_risk", "ethnicity_code", req.ethnicity_code)
          THEN {} ELSE {"ethnicity_risk (normalized)"})
    \cup (IF HasRow("job_risk", "job_id", req.job_id)
          THEN {} ELSE {"job_risk (computed)"})
    \cup (IF HasRow("job_profile", "job_id", req.job_id)
          THEN {} ELSE {"job_profile (pcs_share)"})

\* C19: a /score request that lacks one of its four derived rows is answered
\* 422 "Missing components" with a list that names the missing rows, each
\* once and no other, and with no score; a request that has its four rows is
\* answered with a score.
C19_MissingComponents ==
    call.fn = "score" =>
        LET response == call.response
            lacking == MissingLabels(call.req)
        IN  IF lacking # {}
            THEN /\ response.status = 422
                 /\ response.error = "Missing components"
                 /\ {response.missing[i] : i \in DOMAIN response.missing}
                        = lacking
                 /\ Len(response.missing) = Cardinality(lacking)
                 /\ "score" \notin DOMAIN response
            ELSE /\ response.status = 200
                 /\ "score" \in DOMAIN response

\* a request for a province without a row and a job without a profile row
C19_Witness ==
    /\ call.fn = "score"
    /\ call.response.status = 422
    /\ call.response.missing =
           <<"province_risk (normalized)", "job_profile (pcs_share)">>
    /\ db["province_risk"] # {}

\* C21: after compute_job_risk, of two jobs of the cohort the one with the
\* smaller penalized raw risk has the smaller persisted job_risk, and two
\* jobs of equal raw risk have equal persisted job_risk.
C21_RankPreserved ==
    AfterCompute =>
        LET job_df == JobDf(db)
        IN  \A a \in job_df : \A b \in job_df :
                /\ Lt(a.job_risk, b.job_risk) =>
                       \A x \in RisksOf(a.job_id) :
                           \A y \in RisksOf(b.job_id) : Lt(x, y)
                /\ a.job_risk = b.job_risk =>
                       RisksOf(a.job_id) = RisksOf(b.job_id)

\* three jobs of three different raw risks, persisted in the same order; the
\* one in the middle is persisted with a risk that is not the 0.5 it has in
\* a cohort of its own, so its persisted risk depends on the other jobs
C21_Witness ==
    /\ AfterCompute
    /\ \E a \in JobDf(db) : \E b \in JobDf(db) : \E c \in JobDf(db) :
           /\ Lt(a.job_risk, b.job_risk) /\ Lt(b.job_risk, c.job_risk)
           /\ RisksOf(a.job_id) = {Zero}
           /\ RisksOf(c.job_id) = {One}
           /\ RisksOf(b.job_id) # {RiskNorm(b.job_risk, b.job_risk, b.job_risk)}
           /\ \A y \in RisksOf(b.job_id) : Lt(Zero, y) /\ Lt(y, One)

\* C23 as claimed: in every /score response that carries a score, the band
\* is the band of the score as returned, rounded to 2 decimals: below 0.33
\* Low, below 0.66 Medium, otherwise High.
C23_BandOfReturnedScore ==
    (call.fn = "score" /\ call.response.status = 200) =>
        call.response.band = band(call.response.score)

\* the band is taken from the score before it is rounded
BandOfUnroundedScore ==
    (call.fn = "score" /\ call.response.status = 200) =>
        call.response.band = band(call.response.score_val)

\* a response whose score rounds up to a threshold that the score itself
\* is below
C23_Witness ==
    /\ call.fn = "score"
    /\ call.response.status = 200
    /\ call.response.score \in {Frac(33, 100), Frac(66, 100)}
    /\ Lt(call.response.score_val, call.response.score)
    /\ call.response.band # band(call.response.score)

-----------------------------------------------------------------------------
(* Features without a rubric entry *)

\* one job with any document of up to MaxFeatures features, and a rubric
\* that lacks two of the feature names
InitUnmatched ==
    /\ \E p \in ScorePayloads(ScoreLevels) :
           db = Seeded("0001" :> p, PartialRubric)
    /\ last = [op |-> "init", table |-> "", prior |-> 0]
    /\ call = NoCall

SpecUnmatched == InitUnmatched /\ [][NextEngine]_vars

\* the numeric features of a document whose key the rubric lacks
Unmatched(feats, rubric) ==
    {h \in DOMAIN feats :
         feats[h].t = "number" /\ norm_key(h) \notin DOMAIN rubric}
Without(feats, hdr) == [h \in (DOMAIN feats) \ {hdr} |-> feats[h]]
MassOf(feats, rubric) == Accumulate(NoMass, feats, DOMAIN feats, rubric)
RiskOf(m) ==
    JobRiskRaw(BaseRisk(m.sub_raw, m.cmp_raw), PcsShare(m.pcs_mass, m.pcs_den))

-----------------------------------------------------------------------------
(* ensure_ready (frontend): the three row counts are taken first, then the *)
(* normalizer or the engine runs for each table counted empty.             *)

EnsureReadyAlways(d) == Recompute(d)
EnsureReady(d) ==
    LET p_cnt == Cardinality(d["province_risk"])
        e_cnt == Cardinality(d["ethnicity_risk"])
        j_cnt == Cardinality(d["job_risk"])
        d1 == IF p_cnt = 0
              THEN NormalizeDimension(d, ProvinceDim[1], ProvinceDim[2],
                                      ProvinceDim[3], ProvinceDim[4],
                                      ProvinceDim[5])
              ELSE d
        d2 == IF e_cnt = 0
              THEN NormalizeDimension(d1, EthnicityDim[1], EthnicityDim[2],
                                      EthnicityDim[3], EthnicityDim[4],
                                      EthnicityDim[5])
              ELSE d1
    IN  IF j_cnt = 0 THEN ComputeJobRisk(d2) ELSE d2

\* a call of ensure_ready; before: the derived tables it found
ensure_ready ==
    /\ db' = EnsureReady(db)
    /\ last' = [op |-> IF db["job_risk"] = {} /\ ComputeRaises(db)
                       THEN "ensure_ready raised" ELSE "ensure_ready",
                table |-> "", prior |-> Cardinality(db["job_risk"]),
                before |-> Derived(db)]
    /\ UNCHANGED call

NextReady ==
    \/ \E dim \in Dimensions : \E rows \in LoadedExposures(dim) :
           LoadExposure(dim, rows)
    \/ \E cohort \in LoadedCohorts : LoadJobFeatures(cohort)
    \/ \E rubric \in LoadedRubrics : LoadRubric(rubric)
    \/ ensure_ready

\* the frontend's ensure_ready between loads of the raw tables
SpecReady == InitDb /\ [][NextReady]_vars

\* the table a normalizer or the engine builds from the raw tables of db
Fresh(t) ==
    IF t = "province_risk"
    THEN NormalizeDimension(db, ProvinceDim[1], ProvinceDim[2], ProvinceDim[3],
                            ProvinceDim[4], ProvinceDim[5])[t]
    ELSE IF t = "ethnicity_risk"
    THEN NormalizeDimension(db, EthnicityDim[1], EthnicityDim[2],
                            EthnicityDim[3], EthnicityDim[4],
                            EthnicityDim[5])[t]
    ELSE ComputeJobRisk(RawOnly(db))[t]

\* C22: after ensure_ready, each of province_risk, ethnicity_risk and
\* job_risk that had rows is as it was, whatever the raw tables hold now
\* (and job_profile is as it was if job_risk had rows); each that had no row
\* is the table built from the raw tables as they are.
C22_OnlyEmptyRebuilt ==
    last.op = "ensure_ready" =>
        /\ \A t \in {"province_risk", "ethnicity_risk", "job_risk"} :
               db[t] = IF last.before[t] # {} THEN last.before[t] ELSE Fresh(t)
        /\ db["job_profile"] = IF last.before["job_risk"] # {}
                               THEN last.before["job_profile"]
                               ELSE Fresh("job_profile")

\* province_risk had rows and is kept although the raw table now gives
\* another one, while job_risk had none and is built
C22_Witness ==
    /\ last.op = "ensure_ready"
    /\ last.before["province_risk"] # {}
    /\ db["province_risk"] = last.before["province_risk"]
    /\ db["province_risk"] # Fresh("province_risk")
    /\ last.before["job_risk"] = {}
    /\ db["job_risk"] # {}

-----------------------------------------------------------------------------
(* Visibility of a running recomputation.  db is the database file, which  *)
(* is what every other connection reads; the writing connection carries    *)
(* its own view of the database, with the changes it has not committed, and*)
(* the statements it has still to execute.  A DELETE opens a transaction on*)
(* the connection (sqlite3, default isolation_level); DataFrame.to_sql on a*)
(* sqlite3 connection inserts the rows and commits the connection; commit  *)
(* is conn.commit() or the exit of "with conn:".                           *)

Stmt(sql, table, rows) == [sql |-> sql, table |-> table, rows |-> rows]
Delete(table) == Stmt("DELETE", table, {})
Insert(table, rows) == Stmt("to_sql", table, rows)
Commit == Stmt("commit", "", {})

\* the writes of normalize_dimension, in the order of the code; out holds
\* the frame it writes
NormalizeStmts(d, dim, out) ==
    IF d[dim[1]] = {}
    THEN <<Delete(dim[3]), Commit>>
    ELSE <<Delete(dim[3]), Insert(dim[3], out[dim[3]]), Commit>>

\* the writes of compute_job_risk, in the order of the code; rows holds the
\* two frames written from job_df (job_df has a row for every row of
\* job_features_raw, so it is empty only if the table is)
ComputeStmts(d, rows) ==
    IF d["job_features_raw"] = {} \/ d["ability_skill_rubric_raw"] = {}
    THEN <<Delete("job_profile"), Delete("job_risk"), Commit>>
    ELSE <<Delete("job_profile"), Delete("job_risk"),
           Insert("job_profile", rows["job_profile"]),
           Insert("job_risk", rows["job_risk"]),
           Commit>>

Running(fn, stmts, after) ==
    [fn |-> fn, todo |-> stmts, view |-> db,
     before |-> Derived(db), after |-> Derived(after)]

RunNormalizeDimension(dim, after) ==
    Running("normalize_dimension", NormalizeStmts(db, dim, after), after)

\* normalize_dimension is called: it reads the raw table and computes out
CallNormalizeDimension(dim) ==
    /\ call = NoCall
    /\ call' = RunNormalizeDimension(dim,
                   NormalizeDimension(db, dim[1], dim[2], dim[3], dim[4],
                                      dim[5]))
    /\ last' = [op |-> "call", table |-> dim[3], prior |-> Cardinality(db[dim[3]])]
    /\ UNCHANGED db

RunComputeJobRisk(after) ==
    IF ComputeRaises(db) THEN NoCall
    ELSE Running("compute_job_risk", ComputeStmts(db, after), after)

\* compute_job_risk is called: it reads the two raw tables and computes
\* job_df, or raises before it has written anything
CallComputeJobRisk ==
    /\ call = NoCall
    /\ call' = RunComputeJobRisk(ComputeJobRisk(db))
    /\ last' = [op |-> IF ComputeRaises(db) THEN "compute_job_risk raised"
                       ELSE "call",
                table |-> "job_risk", prior |-> Cardinality(db["job_risk"])]
    /\ UNCHANGED db

IsRunning == call.fn \in {"normalize_dimension", "compute_job_risk"}
NextStmt == Head(call.todo)
Done(view) ==
    IF Len(call.todo) = 1 THEN NoCall
    ELSE [call EXCEPT !.todo = Tail(@), !.view = view]

\* conn.execute("DELETE FROM t"): the rows go from the connection's view
ExecDelete ==
    /\ IsRunning
    /\ NextStmt.sql = "DELETE"
    /\ call' = Done(SqlDelete(call.view, NextStmt.table))
    /\ last' = [op |-> "DELETE", table |-> NextStmt.table, prior |-> 0]
    /\ UNCHANGED db

\* frame.to_sql(t, conn, if_exists="append"): the rows are inserted and the
\* connection is committed, with everything it had not committed before
ExecToSql ==
    /\ IsRunning
    /\ NextStmt.sql = "to_sql"
    /\ LET view == ToSql(call.view, NextStmt.table, NextStmt.rows)
       IN  /\ db' = view
           /\ call' = Done(view)
    /\ last' = [op |-> "to_sql", table |-> NextStmt.table, prior |-> 0]

\* conn.commit(), or the exit of "with conn:"
ExecCommit ==
    /\ IsRunning
    /\ NextStmt.sql = "commit"
    /\ db' = call.view
    /\ call' = Done(call.view)
    /\ last' = [op |-> "commit", table |-> "", prior |-> 0]

\* another connection reads the derived tables of the database file; the
\* record keeps what it saw next to the tables before and after the run
\* that is under way, if one is
Read ==
    /\ last.op # "read"
    /\ last' = [op |-> "read", table |-> "", prior |-> 0,
                seen |-> Derived(db),
                before |-> IF IsRunning THEN call.before ELSE Derived(db),
                after |-> IF IsRunning THEN call.after ELSE Derived(db)]
    /\ UNCHANGED <<db, call>>

NextTxn ==
    \/ \E dim \in Dimensions : \E rows \in LoadedExposures(dim) :
           call = NoCall /\ LoadExposure(dim, rows)
    \/ \E cohort \in LoadedCohorts : call = NoCall /\ LoadJobFeatures(cohort)
    \/ \E rubric \in LoadedRubrics : call = NoCall /\ LoadRubric(rubric)
    \/ \E dim \in Dimensions : CallNormalizeDimension(dim)
    \/ CallComputeJobRisk
    \/ ExecDelete
    \/ ExecToSql
    \/ ExecCommit
    \/ Read

\* the recomputation statement by statement, with a reader
SpecTxn == InitDb /\ [][NextTxn]_vars

\* C18: what a reader on another connection sees of a derived table is the
\* table before the run or the table after it, never a cleared table that
\* is still to be rewritten, and it sees job_profile and job_risk both
\* before the run or both after it.
C18_ReaderSeesWholeRuns ==
    last.op = "read" =>
        /\ \A t \in DerivedTables :
               last.seen[t] \in {last.before[t], last.after[t]}
        /\ \/ /\ last.seen["job_profile"] = last.before["job_profile"]
              /\ last.seen["job_risk"] = last.before["job_risk"]
           \/ /\ last.seen["job_profile"] = last.after["job_profile"]
              /\ last.seen["job_risk"] = last.after["job_risk"]

\* the same for the two tables normalize_dimension writes
ReaderSeesWholeNormalize ==
    last.op = "read" =>
        \A t \in {"province_risk", "ethnicity_risk"} :
            last.seen[t] \in {last.before[t], last.after[t]}

\* a reader sees the job_profile of the run with an empty job_risk, between
\* the job_risk of the run before and the one this run is about to write
C18_Witness ==
    /\ last.op = "read"
    /\ last.seen["job_profile"] = last.after["job_profile"]
    /\ last.seen["job_risk"] = {}
    /\ last.before["job_risk"] # {}
    /\ last.after["job_risk"] # {}


-----------------------------------------------------------------------------
(* create_booking (frontend).  Every call opens a connection of its own.   *)
(* The SELECT runs outside a transaction and reads the database file; the  *)
(* INSERT opens a transaction on the connection, which takes the write     *)
(* lock of the file until the commit; another connection that wants the    *)
(* lock waits and, if the wait times out, gets "database is locked".       *)
(* The schema of bookings is not part of the code: slot_unique says        *)
(* whether it declares slot_id UNIQUE, and both schemas are considered.    *)

NumCallers == 2
Callers == 1..NumCallers
SlotIds == {1, 2, 3}
VolunteerIds == {"v1", "v2"}

SlotRow(slot_id, volunteer_id, is_booked) ==
    [slot_id |-> slot_id, volunteer_id |-> volunteer_id,
     is_booked |-> is_booked]
BookingRow(volunteer_id, slot_id, user_name) ==
    [volunteer_id |-> volunteer_id, slot_id |-> slot_id,
     user_name |-> user_name]

Idle == [pc |-> "idle"]

\* volunteer v1 has a free slot 1 and a booked slot 2; there is no slot 3
InitBooking ==
    /\ \E slot_unique \in BOOLEAN :
           db = [volunteer_slots |-> {SlotRow(1, "v1", 0), SlotRow(2, "v1", 1)},
                 bookings |-> {BookingRow("v1", 2, 0)},
                 slot_unique |-> slot_unique]
    /\ last = [op |-> "init", table |-> "", prior |-> 0]
    /\ call = [c \in Callers |-> Idle]

Returned(c, ok, message) ==
    [call[c] EXCEPT !.pc = "done", !.ok = ok, !.message = message]

\* the SELECT of is_booked, and the two early returns
BookingSelect(c, volunteer_id, slot_id) ==
    /\ call[c].pc = "idle"
    /\ LET rows == {r \in db.volunteer_slots :
                        r.slot_id = slot_id /\ r.volunteer_id = volunteer_id}
           entered == [pc |-> "insert", volunteer_id |-> volunteer_id,
                       slot_id |-> slot_id, found |-> rows # {},
                       is_booked |-> IF rows = {} THEN 0
                                     ELSE (CHOOSE r \in rows : TRUE).is_booked,
                       writes |-> 0, ok |-> FALSE, message |-> "",
                       view |-> db]
       IN  call' = [call EXCEPT ![c] =
                       IF rows = {}
                       THEN [entered EXCEPT !.pc = "done",
                                            !.message = "Slot not found."]
                       ELSE IF entered.is_booked = 1
                       THEN [entered EXCEPT
                                !.pc = "done",
                                !.message = "Sorry, that slot was just booked."]
                       ELSE entered]
    /\ last' = [op |-> "SELECT", table |-> "volunteer_slots", prior |-> 0]
    /\ UNCHANGED db

\* a connection is between its INSERT and its commit
HoldsLock(c) == call[c].pc \in {"update", "commit"}

\* the INSERT into bookings: it sees the database file as it is now; with
\* slot_id UNIQUE a second row for the slot raises IntegrityError, and the
\* connection is closed without a commit
BookingInsert(c) ==
    /\ call[c].pc = "insert"
    /\ \A o \in Callers : ~HoldsLock(o)
    /\ LET row == BookingRow(call[c].volunteer_id, call[c].slot_id, c)
           taken == \E b \in db.bookings : b.slot_id = call[c].slot_id
       IN  call' = [call EXCEPT ![c] =
                       IF db.slot_unique /\ taken
                       THEN [@ EXCEPT !.pc = "raised",
                                      !.message = "IntegrityError"]
                       ELSE [@ EXCEPT !.pc = "update", !.writes = 1,
                                      !.view = [db EXCEPT !.bookings =
                                                   @ \cup {row}]]]
    /\ last' = [op |-> "INSERT", table |-> "bookings", prior |-> 0]
    /\ UNCHANGED db

\* the INSERT while another connection holds the lock until the timeout
BookingInsertLocked(c) ==
    /\ call[c].pc = "insert"
    /\ \E o \in Callers : HoldsLock(o)
    /\ call' = [call EXCEPT ![c] = [@ EXCEPT !.pc = "raised",
                                             !.message = "database is locked"]]
    /\ last' = [op |-> "INSERT", table |-> "bookings", prior |-> 0]
    /\ UNCHANGED db

\* UPDATE volunteer_slots SET is_booked=1 WHERE slot_id=?
BookingUpdate(c) ==
    /\ call[c].pc = "update"
    /\ call' = [call EXCEPT ![c] =
                   [@ EXCEPT !.pc = "commit", !.writes = 2,
                             !.view = [@ EXCEPT !.volunteer_slots =
                                 {IF r.slot_id = call[c].slot_id
                                  THEN [r EXCEPT !.is_booked = 1] ELSE r :
                                      r \in @}]]]
    /\ last' = [op |-> "UPDATE", table |-> "volunteer_slots", prior |-> 0]
    /\ UNCHANGED db

\* conn.commit() and the return of success
BookingCommit(c) ==
    /\ call[c].pc = "commit"
    /\ db' = call[c].view
    /\ call' = [call EXCEPT ![c] =
                   Returned(c, TRUE, "Session booked!")]
    /\ last' = [op |-> "commit", table |-> "bookings",
                prior |-> Cardinality(db.bookings)]

NextBooking ==
    \/ \E c \in Callers : \E v \in VolunteerIds : \E s \in SlotIds :
           BookingSelect(c, v, s)
    \/ \E c \in Callers : BookingInsert(c)
    \/ \E c \in Callers : BookingInsertLocked(c)
    \/ \E c \in Callers : BookingUpdate(c)
    \/ \E c \in Callers : BookingCommit(c)

\* concurrent calls of create_booking, one per caller
SpecBooking == InitBooking /\ [][NextBooking]_vars

Succeeded(slot_id) ==
    {c \in Callers : /\ call[c].pc = "done"
                     /\ call[c].ok
                     /\ call[c].slot_id = slot_id}
BookingsOf(slot_id) == {b \in db.bookings : b.slot_id = slot_id}

\* a call whose SELECT found no slot or a booked slot returns failure and
\* has written nothing
RefusedCallsWriteNothing ==
    \A c \in Callers :
        (call[c].pc \notin {"idle"}
         /\ (~call[c].found \/ call[c].is_booked = 1)) =>
            /\ call[c].pc = "done"
            /\ ~call[c].ok
            /\ call[c].writes = 0

\* C24: whatever the interleaving of the calls, at most one call for a slot
\* returns success and bookings holds at most one row for the slot; a call
\* for a booked or unknown slot returns failure and writes nothing.
C24_OneBookingPerSlot ==
    /\ \A s \in SlotIds :
           /\ Cardinality(Succeeded(s)) <= 1
           /\ Cardinality(BookingsOf(s)) <= 1
    /\ RefusedCallsWriteNothing

\* two calls for slot 1 have returned success and bookings holds two rows
\* for it
C24_Witness ==
    /\ Cardinality(Succeeded(1)) = 2
    /\ Cardinality(BookingsOf(1)) = 2
    /\ \A r \in db.volunteer_slots : r.is_booked = 1

=============================================================================
